---- MODULE Spec2Model ----
(***************************************************************************)
(* Model of the batching MongoDB transport of logger-client-node           *)
(* (src/src/mongo-transport.js): the in-memory buffer, the flush timer,    *)
(* the insertMany write path and the stream's write/final handlers.        *)
(*                                                                         *)
(* A buffered document is represented by the ordinal of its push (1, 2,    *)
(* ...), so insertion order and identity of records are observable.        *)
(* Time is relative: a pending timer carries the number of ticks left      *)
(* before it is due.                                                       *)
(***************************************************************************)
EXTENDS Integers, Sequences, FiniteSets, TLC

\* ---- bounds of the model -------------------------------------------------
MaxRecords == 4      \* well-formed records pushed over the whole run
MaxChunk == 2        \* lines in one chunk handed to write()

\* ---- transport options (buildTransport's opts) ---------------------------
batchSize == 3
flushMs == 2

Null == 0            \* flushTimer = null
Lines == {"ok", "bad", "blank"}
Errors == {"ECONN", "EAUTH"}

VARIABLES
  buffer,       \* const buffer = []            : sequence of documents
  flushTimer,   \* let flushTimer = null        : timer handle or Null
  timers,       \* the runtime's active timeouts: set of [id, remaining]
  inflight,     \* insertMany promises not yet settled: set of [id, docs]
  issued,       \* every insertMany call so far, in call order: Seq(docs)
  written,      \* documents of resolved insertMany calls
  dropped,      \* documents of rejected insertMany calls
  stderr,       \* process.stderr: sequence of messages
  conn,         \* MongoClient: "open", "closing" (close() called), "closed"
  finalCb,      \* final's callback: "none", "ok", "err"
  ended,        \* the stream's final handler has run
  nextId,       \* ordinal of the next document pushed
  sinceArm,     \* ticks elapsed since the write that armed the timer
  lastOp,       \* the handler that ran last
  writeCb,      \* cb of the latest write call: "none", "ok", "err"
  lastChunk,    \* the chunk of the write call that has just returned,
                \* recorded by ChunkSpec only
  input,        \* options and environment of a construction or a mapping
  output,       \* what the construction or the mapping produced
  phase         \* "transport", or the step of the construction / mapping

\* the variables of construction and mapping, fixed while the transport runs
pvars == <<input, output, phase>>

vars == <<buffer, flushTimer, timers, inflight, issued, written, dropped,
          stderr, conn, finalCb, ended, nextId, sinceArm, lastOp, writeCb,
          lastChunk, input, output, phase>>

\* ---- helpers -------------------------------------------------------------
Range(s) == {s[i] : i \in 1..Len(s)}

Min(a, b) == IF a < b THEN a ELSE b

\* a push at the front of the array (unshift) instead of at its end
bufferUnshift(buf, doc) == <<doc>> \o buf

\* Array.prototype.push
bufferPush(buf, doc) == Append(buf, doc)

\* a copy of the elements (slice) that leaves the array as it is
sliceKeep(buf, start, n) ==
  [removed |-> SubSeq(buf, start + 1, Min(start + n, Len(buf))),
   rest |-> buf]

\* Array.prototype.splice(start, n): the removed elements and what is left
splice(buf, start, n) ==
  [removed |-> SubSeq(buf, start + 1, Min(start + n, Len(buf))),
   rest |-> SubSeq(buf, 1, start) \o SubSeq(buf, start + n + 1, Len(buf))]

\* the closure state the handlers read and write
St ==
  [buffer |-> buffer, flushTimer |-> flushTimer, timers |-> timers,
   inflight |-> inflight, issued |-> issued, stderr |-> stderr,
   writeCb |-> writeCb]

\* setTimeout: a handle not in use
FreshHandle(s) ==
  CHOOSE h \in 1..(Cardinality(s.timers) + 2) :
    /\ h # s.flushTimer
    /\ \A t \in s.timers : t.id # h

setTimeout(ts, h, ms) == ts \cup {[id |-> h, remaining |-> ms]}

clearTimeout(ts, h) == {t \in ts : t.id # h}

\* col.insertMany(docs): the call is recorded and its promise is pending
insertMany(s, docs) ==
  [s EXCEPT !.inflight = @ \cup {[id |-> Len(s.issued) + 1, docs |-> docs]},
            !.issued = Append(@, docs)]

\* flush without the early return on an empty buffer
flushNoGuard(s) ==
  LET sp == splice(s.buffer, 0, Len(s.buffer))
  IN insertMany([s EXCEPT !.buffer = sp.rest], sp.removed)

\* function flush()
flush(s) ==
  IF Len(s.buffer) = 0
  THEN s
  ELSE LET sp == splice(s.buffer, 0, Len(s.buffer))
       IN insertMany([s EXCEPT !.buffer = sp.rest], sp.removed)

\* scheduleFlush without the early return: every call sets a new timeout
scheduleFlushAlways(s) ==
  LET h == FreshHandle(s)
  IN [s EXCEPT !.flushTimer = h, !.timers = setTimeout(@, h, flushMs)]

\* function scheduleFlush()
scheduleFlush(s) ==
  IF s.flushTimer # Null
  THEN s
  ELSE LET h == FreshHandle(s)
       IN [s EXCEPT !.flushTimer = h, !.timers = setTimeout(@, h, flushMs)]

\* str.split("\n").filter((s) => s.trim())
filterLines(chunk) == SelectSeq(chunk, LAMBDA l : l # "blank")

\* a loop with one try around it: the first line that fails ends the loop
RECURSIVE pushLinesAbort(_, _, _)
pushLinesAbort(buf, lines, id) ==
  IF lines = <<>>
  THEN [buffer |-> buf, nextId |-> id]
  ELSE IF Head(lines) = "ok"
       THEN pushLinesAbort(bufferPush(buf, id), Tail(lines), id + 1)
       ELSE [buffer |-> buf, nextId |-> id]

\* the for loop of write(): push every line that parses, skip the others
RECURSIVE pushLines(_, _, _)
pushLines(buf, lines, id) ==
  IF lines = <<>>
  THEN [buffer |-> buf, nextId |-> id]
  ELSE IF Head(lines) = "ok"
       THEN pushLines(bufferPush(buf, id), Tail(lines), id + 1)
       ELSE pushLines(buf, Tail(lines), id)

\* the size check with the flush but without cancelling the pending timer
maybeFlushKeepTimer(s) ==
  IF Len(s.buffer) >= batchSize THEN flush(s) ELSE scheduleFlush(s)

\* the size check at the end of write()
maybeFlush(s) ==
  IF Len(s.buffer) >= batchSize
  THEN LET f == flush(s)
       IN [f EXCEPT !.timers = IF f.flushTimer # Null
                                THEN clearTimeout(@, f.flushTimer) ELSE @,
                    !.flushTimer = Null]
  ELSE scheduleFlush(s)

\* a write that calls cb only once no insertMany is pending
writeHandlerAwait(s, chunk, id) ==
  LET p == pushLines(s.buffer, filterLines(chunk), id)
      r == maybeFlush([s EXCEPT !.buffer = p.buffer])
  IN [r EXCEPT !.writeCb = IF r.inflight = {} THEN "ok" ELSE "none"]

\* write(chunk, _enc, cb): the loop, the size check, then cb()
writeHandler(s, chunk, id) ==
  LET p == pushLines(s.buffer, filterLines(chunk), id)
  IN [maybeFlush([s EXCEPT !.buffer = p.buffer]) EXCEPT !.writeCb = "ok"]

\* a timer callback that flushes but leaves flushTimer set
timerCallbackKeepHandle(s) == flush(s)

\* the setTimeout callback of scheduleFlush
timerCallback(s) == flush([s EXCEPT !.flushTimer = Null])

\* final that cancels the timer but does not flush
finalNoFlush(s) ==
  [s EXCEPT !.timers = IF s.flushTimer # Null
                       THEN clearTimeout(@, s.flushTimer) ELSE @]

\* final(cb), up to the call of client.close()
finalHandler(s) ==
  flush([s EXCEPT !.timers = IF s.flushTimer # Null
                             THEN clearTimeout(@, s.flushTimer) ELSE @])

\* a .catch handler that puts the failed batch back in front of the buffer
catchRebuffer(s, docs, err) ==
  [s EXCEPT !.buffer = docs \o @,
            !.stderr = @ \o <<[line |-> "insertMany failed", err |-> err],
                              [line |-> "check uri and network", err |-> err]>>]

\* the .catch handler of flush: two writes to process.stderr
catchHandler(s, docs, err) ==
  [s EXCEPT !.stderr = @ \o <<[line |-> "insertMany failed", err |-> err],
                              [line |-> "check uri and network", err |-> err]>>]

\* .then(() => cb()) with no rejection handler
closeCallbackNoReject(outcome) == IF outcome = "resolved" THEN "ok" ELSE "none"

\* client.close().then(() => cb(), cb): how final's callback is invoked
closeCallback(outcome) == IF outcome = "resolved" THEN "ok" ELSE "err"

Chunks == UNION {[1..n -> Lines] : n \in 0..MaxChunk}

NumOk(chunk) == Len(SelectSeq(chunk, LAMBDA l : l = "ok"))

\* ---- the state machine ---------------------------------------------------
TransportInit ==
  /\ buffer = <<>>
  /\ flushTimer = Null
  /\ timers = {}
  /\ inflight = {}
  /\ issued = <<>>
  /\ written = {}
  /\ dropped = {}
  /\ stderr = <<>>
  /\ conn = "open"
  /\ finalCb = "none"
  /\ ended = FALSE
  /\ nextId = 1
  /\ sinceArm = 0
  /\ lastOp = "init"
  /\ writeCb = "none"
  /\ lastChunk = <<>>

Init ==
  /\ TransportInit
  /\ input = <<>>
  /\ output = <<>>
  /\ phase = "transport"

Apply(s) ==
  /\ buffer' = s.buffer
  /\ flushTimer' = s.flushTimer
  /\ timers' = s.timers
  /\ inflight' = s.inflight
  /\ issued' = s.issued
  /\ stderr' = s.stderr
  /\ writeCb' = s.writeCb

\* the stream calls write(chunk); a Writable takes no write once it ended
WriteWith(recorded) ==
  \E chunk \in Chunks :
    /\ ~ended
    /\ nextId + NumOk(chunk) <= MaxRecords + 1
    /\ Apply(writeHandler([St EXCEPT !.writeCb = "none"], chunk, nextId))
    /\ lastChunk' = IF recorded THEN chunk ELSE <<>>
    /\ nextId' = nextId + NumOk(chunk)
    /\ sinceArm' = IF flushTimer = Null THEN 0 ELSE sinceArm
    /\ lastOp' = "write"
    /\ UNCHANGED <<written, dropped, conn, finalCb, ended>>
    /\ UNCHANGED pvars

Write == WriteWith(FALSE)

\* the same call, the chunk it was given kept for inspection
WriteRecorded == WriteWith(TRUE)

\* one unit of time passes
Tick ==
  /\ \E t \in timers : t.remaining > 0
  /\ timers' = {[t EXCEPT !.remaining = IF @ > 0 THEN @ - 1 ELSE 0] : t \in timers}
  /\ sinceArm' = Min(sinceArm + 1, flushMs)
  /\ lastOp' = "tick"
  /\ lastChunk' = <<>>
  /\ UNCHANGED <<buffer, flushTimer, inflight, issued, written, dropped,
                 stderr, conn, finalCb, ended, nextId, writeCb>>
  /\ UNCHANGED pvars

\* a due timeout runs its callback
TimerFire ==
  \E t \in timers :
    /\ t.remaining = 0
    /\ Apply(timerCallback([St EXCEPT !.timers = @ \ {t}]))
    /\ lastOp' = "timer"
    /\ lastChunk' = <<>>
    /\ UNCHANGED <<written, dropped, conn, finalCb, ended, nextId, sinceArm>>
    /\ UNCHANGED pvars

\* the stream ends: final(cb) runs and calls client.close()
Final ==
  /\ ~ended
  /\ Apply(finalHandler(St))
  /\ ended' = TRUE
  /\ conn' = "closing"
  /\ lastOp' = "final"
  /\ lastChunk' = <<>>
  /\ UNCHANGED <<written, dropped, finalCb, nextId, sinceArm>>
  /\ UNCHANGED pvars

\* an insertMany promise resolves
Resolve ==
  \E b \in inflight :
    /\ inflight' = inflight \ {b}
    /\ written' = written \cup Range(b.docs)
    /\ lastOp' = "resolve"
    /\ lastChunk' = <<>>
    /\ UNCHANGED <<buffer, flushTimer, timers, issued, dropped, stderr, conn,
                   finalCb, ended, nextId, sinceArm, writeCb>>
    /\ UNCHANGED pvars

\* an insertMany promise rejects: the .catch handler runs
Reject ==
  \E b \in inflight, err \in Errors :
    /\ Apply(catchHandler([St EXCEPT !.inflight = @ \ {b}], b.docs, err))
    /\ dropped' = dropped \cup Range(b.docs)
    /\ lastOp' = "reject"
    /\ lastChunk' = <<>>
    /\ UNCHANGED <<written, conn, finalCb, ended, nextId, sinceArm>>
    /\ UNCHANGED pvars

\* client.close() resolves: .then(() => cb())
CloseOk ==
  /\ conn = "closing"
  /\ conn' = "closed"
  /\ finalCb' = closeCallback("resolved")
  /\ lastOp' = "closeOk"
  /\ lastChunk' = <<>>
  /\ UNCHANGED <<buffer, flushTimer, timers, inflight, issued, written,
                 dropped, stderr, ended, nextId, sinceArm, writeCb>>
  /\ UNCHANGED pvars

\* client.close() rejects: .then(_, cb)
CloseFail ==
  /\ conn = "closing"
  /\ conn' = "closed"
  /\ finalCb' = closeCallback("rejected")
  /\ lastOp' = "closeFail"
  /\ lastChunk' = <<>>
  /\ UNCHANGED <<buffer, flushTimer, timers, inflight, issued, written,
                 dropped, stderr, ended, nextId, sinceArm, writeCb>>
  /\ UNCHANGED pvars

Next ==
  \/ Write
  \/ Tick
  \/ TimerFire
  \/ Final
  \/ Resolve
  \/ Reject
  \/ CloseOk
  \/ CloseFail

Spec == Init /\ [][Next]_vars

\* timers that are due fire, and the driver settles every insertMany
FairSpec ==
  /\ Spec
  /\ WF_vars(Tick)
  /\ WF_vars(TimerFire)
  /\ WF_vars(Resolve \/ Reject)

ChunkNext ==
  \/ WriteRecorded
  \/ Tick
  \/ TimerFire
  \/ Final
  \/ Resolve
  \/ Reject
  \/ CloseOk
  \/ CloseFail

\* the transport, each write leaving its chunk in lastChunk
ChunkSpec == Init /\ [][ChunkNext]_vars

\* as FairSpec, and the driver settles the promise of client.close()
ShutdownSpec ==
  /\ FairSpec
  /\ WF_vars(CloseOk \/ CloseFail)

\* ---- properties ----------------------------------------------------------
Run(a, b) == [i \in 1..(b - a + 1) |-> a + i - 1]

RECURSIVE SumLen(_)
SumLen(batches) ==
  IF batches = <<>> THEN 0 ELSE Len(Head(batches)) + SumLen(Tail(batches))

\* documents pushed by the write step under way
Pushed == Run(nextId, nextId' - 1)

\* C1: while fewer than batchSize records are buffered, a write issues no
\* insertMany and appends its records at the end of the buffer; the first
\* append after an empty, timer-less state arms one timer due flushMs later;
\* when the timer fires on a non-empty buffer, exactly one insertMany is
\* issued and its batch is exactly the records pushed since the last batch,
\* in insertion order.
C1_TimerFlushOrdered ==
  [][ /\ (lastOp' = "write" /\ Len(buffer) + Len(Pushed) < batchSize
          => /\ issued' = issued
             /\ buffer' = buffer \o Pushed)
      /\ (lastOp' = "write" /\ buffer = <<>> /\ timers = {}
            /\ Len(Pushed) \in 1..(batchSize - 1)
          => /\ Cardinality(timers') = 1
             /\ \A t \in timers' : t.remaining = flushMs)
      /\ (lastOp' = "timer" /\ buffer # <<>>
          => /\ Len(buffer) < batchSize
             /\ issued' = Append(issued, Run(SumLen(issued) + 1, nextId - 1))
             /\ buffer' = <<>>) ]_vars

C1_Witness ==
  /\ lastOp = "timer"
  /\ ~ended
  /\ issued = << <<1, 2>> >>
  /\ buffer = <<>>

\* C2: a write that brings the buffer to batchSize or more issues one
\* insertMany of the whole buffer inside the call and cancels the pending
\* timer: after the call the buffer is empty and no timer exists that could
\* fire later.
C2_SizeFlushCancelsTimer ==
  [][ lastOp' = "write" /\ Len(buffer) + Len(Pushed) >= batchSize
      => /\ issued' = Append(issued, buffer \o Pushed)
         /\ buffer' = <<>>
         /\ flushTimer' = Null
         /\ timers' = {} ]_vars

C2_Witness ==
  /\ lastOp = "write"
  /\ issued = << <<1, 2, 3, 4>> >>
  /\ buffer = <<>>
  /\ timers = {}

\* C3: final's callback is invoked only after every insertMany issued before
\* or during shutdown has resolved or rejected.
C3_FinalCbAfterWritesSettle == finalCb # "none" => inflight = {}

\* C4: client.close is called only after every insertMany has settled: the
\* connection is never closing or closed while a write is in flight.
C4_CloseAfterWritesSettle == conn = "open" \/ inflight = {}

BatchesOf(d) == {i \in DOMAIN issued : d \in Range(issued[i])}

\* C5: a rejected insertMany leaves buffer, timer and the list of insertMany
\* calls as they were (no re-buffering, no retry); a dropped record is never
\* in the buffer again and was handed over in exactly one batch; until the
\* stream ends the transport goes on taking writes.
C5_FailedBatchDropped ==
  /\ [][ lastOp' = "reject"
          => /\ buffer' = buffer
             /\ issued' = issued
             /\ timers' = timers
             /\ flushTimer' = flushTimer
             /\ inflight' \subseteq inflight ]_vars
  /\ [](\A d \in dropped :
          /\ d \notin Range(buffer)
          /\ Cardinality(BatchesOf(d)) = 1)
  /\ [](dropped # {} /\ ~ended /\ nextId <= MaxRecords => ENABLED Write)

C5_Witness ==
  /\ lastOp = "reject"
  /\ dropped # {}
  /\ buffer # <<>>
  /\ timers # {}
  /\ inflight # {}

\* C6: a rejected insertMany adds exactly one message to stderr, and the
\* message carries the batch's record count and the error text; a resolved
\* insertMany adds none.
C6_OneDiagnosticWithCount ==
  [][ /\ (lastOp' = "reject" /\ inflight' # inflight
          => /\ Len(stderr') = Len(stderr) + 1
             /\ "count" \in DOMAIN stderr'[Len(stderr')]
             /\ stderr'[Len(stderr')].err \in Errors)
      /\ (lastOp' = "resolve" => stderr' = stderr) ]_vars

NoRecordTwice ==
  /\ \A i \in DOMAIN issued : \A j \in DOMAIN issued :
       i # j => Range(issued[i]) \cap Range(issued[j]) = {}
  /\ \A k \in DOMAIN issued : Range(issued[k]) \cap Range(buffer) = {}
  /\ \A k \in DOMAIN issued : Cardinality(Range(issued[k])) = Len(issued[k])
  /\ Cardinality(Range(buffer)) = Len(buffer)
  /\ \A b \in inflight : b.id \in DOMAIN issued /\ b.docs = issued[b.id]

BatchesKept ==
  /\ \A k \in DOMAIN issued : k \in DOMAIN issued' /\ issued'[k] = issued[k]
  /\ (lastOp' = "write" => inflight \subseteq inflight')

\* C7: the live buffer and the batches handed to insertMany are pairwise
\* disjoint and hold no record twice; a batch never changes once handed
\* over; a write leaves every batch in flight as it was.
C7_SnapshotsDisjoint == []NoRecordTwice /\ [][BatchesKept]_vars

C7_Witness ==
  /\ Cardinality(inflight) >= 2
  /\ buffer # <<>>
  /\ lastOp = "write"

Settled(d) == d \in written \/ (d \in dropped /\ stderr # <<>>)

Accounted ==
  /\ \A d \in 1..(nextId - 1) :
       /\ Cardinality(BatchesOf(d)) <= 1
       /\ d \in Range(buffer) <=> BatchesOf(d) = {}
  /\ \A k \in DOMAIN issued :
       \/ \E b \in inflight : b.id = k
       \/ Range(issued[k]) \subseteq written
       \/ Range(issued[k]) \subseteq dropped /\ Len(stderr) > 0

\* C8: every record pushed onto the buffer is in the buffer or in exactly
\* one insertMany batch, every batch is in flight, written or dropped with a
\* diagnostic, and (timers firing and writes settling) every buffered record
\* is eventually written or dropped with a diagnostic.
C8_EveryRecordSettles ==
  /\ []Accounted
  /\ \A d \in 1..MaxRecords : (d \in Range(buffer)) ~> Settled(d)

C8_Witness ==
  /\ written # {}
  /\ dropped # {}
  /\ buffer = <<>>
  /\ inflight = {}
  /\ nextId = MaxRecords + 1
  /\ ~ended

OneTimer ==
  /\ Cardinality(timers) <= 1
  /\ \A t \in timers : t.id = flushTimer /\ t.remaining + sinceArm = flushMs

\* C9: at most one timer is pending, it is the one flushTimer names, and it
\* is due flushMs after the write that armed it; a write made while a timer
\* is pending either cancels it (size flush) or leaves it as it is.
C9_SingleTimerNotPostponed ==
  /\ []OneTimer
  /\ [][ lastOp' = "write" /\ timers # {} /\ timers' # {}
          => timers' = timers /\ flushTimer' = flushTimer ]_vars

C9_Witness ==
  /\ lastOp = "write"
  /\ timers # {}
  /\ sinceArm > 0
  /\ Len(buffer) = 2

\* C10: flush on an empty buffer changes nothing: a timer callback or a
\* shutdown that finds the buffer empty issues no insertMany, and no
\* insertMany is ever issued with an empty batch.
C10_EmptyFlushNoop ==
  /\ [](\A k \in DOMAIN issued : issued[k] # <<>>)
  /\ [](buffer = <<>> => flush(St) = St)
  /\ [][ lastOp' \in {"timer", "final"} /\ buffer = <<>>
          => issued' = issued /\ inflight' = inflight /\ buffer' = <<>> ]_vars

C10_Witness ==
  /\ lastOp = "final"
  /\ issued = <<>>
  /\ buffer = <<>>
  /\ flushTimer # Null

\* C11: every write call invokes its callback, with no error, before it
\* returns, whatever the number of insertMany calls still pending and
\* whatever became of the earlier ones.
C11_WriteAcksInCall ==
  /\ lastOp = "write" => writeCb = "ok"
  /\ writeCb \in {"none", "ok"}

C11_Witness ==
  /\ lastOp = "write"
  /\ writeCb = "ok"
  /\ Cardinality(inflight) >= 2
  /\ dropped # {}

\* what the write step under way hands to insertMany
NewBatch == IF Len(issued') > Len(issued) THEN issued'[Len(issued')] ELSE <<>>

\* C12: a write pushes one document per parseable line of its chunk, in the
\* order of the lines, after what was buffered (the documents are then in
\* the buffer or in the batch the same call flushed); unparseable and blank
\* lines add nothing; the callback gets no error.
C12_PerLineSkip ==
  [][ lastOp' = "write"
      => /\ NewBatch \o buffer'
              = buffer \o Run(nextId, nextId + NumOk(lastChunk') - 1)
         /\ Len(issued') <= Len(issued) + 1
         /\ (NumOk(lastChunk') = 0 => buffer' = buffer /\ issued' = issued)
         /\ writeCb' = "ok" ]_vars

C12_Witness ==
  /\ lastOp = "write"
  /\ lastChunk = <<"bad", "ok">>
  /\ buffer = <<1, 2>>
  /\ writeCb = "ok"

\* ---- construction: the batching thresholds --------------------------------
MaxStrLen == 2       \* characters in the value of an environment variable

DefaultBatchSize == 50
DefaultFlushMs == 2000
DocumentedFlushMs == 5000

\* JavaScript values
Undef == [t |-> "undefined"]
NaN == [t |-> "NaN"]
Num(n) == [t |-> "number", v |-> n]
Str(cs) == [t |-> "string", v |-> cs]

Chars == {"-", "0", "7", "x"}
Digits == {"0", "7"}
DigitVal(c) == IF c = "7" THEN 7 ELSE 0

Strings == UNION {[1..n -> Chars] : n \in 0..MaxStrLen}

\* process.env.X: unset, or a string
EnvVals == {Undef} \cup {Str(cs) : cs \in Strings}

\* options.batchSize / options.flushMs as a caller may give them
OptVals == {Undef, Num(0), Num(-3), Num(7), Str(<<"x">>)}

RECURSIVE DigitsPrefix(_)
DigitsPrefix(cs) ==
  IF cs = <<>> \/ Head(cs) \notin Digits
  THEN <<>>
  ELSE <<Head(cs)>> \o DigitsPrefix(Tail(cs))

RECURSIVE DecimalValue(_, _)
DecimalValue(ds, acc) ==
  IF ds = <<>> THEN acc ELSE DecimalValue(Tail(ds), 10 * acc + DigitVal(Head(ds)))

\* parseInt(x, 10): an optional sign, then the leading digits; NaN without
\* a digit (undefined is read as the text "undefined")
parseInt(x) ==
  IF x.t # "string"
  THEN NaN
  ELSE LET neg == x.v # <<>> /\ Head(x.v) = "-"
           ds == DigitsPrefix(IF neg THEN Tail(x.v) ELSE x.v)
       IN IF ds = <<>>
          THEN NaN
          ELSE Num((IF neg THEN -1 ELSE 1) * DecimalValue(ds, 0))

Truthy(x) ==
  CASE x.t = "number" -> x.v # 0
    [] x.t = "string" -> x.v # <<>>
    [] x.t = "boolean" -> x.v
    [] OTHER -> FALSE

\* a || b
OrElse(a, b) == IF Truthy(a) THEN a ELSE b

\* const BATCH_SIZE = parseInt(process.env.LOG_BATCH_SIZE, 10) || 50
BATCH_SIZE(env) == OrElse(parseInt(env.LOG_BATCH_SIZE), Num(DefaultBatchSize))

\* const FLUSH_MS = parseInt(process.env.LOG_FLUSH_MS, 10) || 2000
FLUSH_MS(env) == OrElse(parseInt(env.LOG_FLUSH_MS), Num(DefaultFlushMs))

\* a destructuring default: used only when the property is undefined
DefaultTo(x, dflt) == IF x = Undef THEN dflt ELSE x

\* createLogger: the batching options handed to pino.transport
transportThresholds(options) ==
  [batchSize |-> options.batchSize, flushMs |-> options.flushMs]

\* buildTransport: const { batchSize = BATCH_SIZE, flushMs = FLUSH_MS } = opts
resolveThresholds(opts, consts) ==
  [batchSize |-> DefaultTo(opts.batchSize, consts.BATCH_SIZE),
   flushMs |-> DefaultTo(opts.flushMs, consts.FLUSH_MS)]

ThresholdInputs ==
  [env : [LOG_BATCH_SIZE : EnvVals, LOG_FLUSH_MS : EnvVals],
   options : [batchSize : OptVals, flushMs : OptVals]]

ThresholdInit ==
  /\ TransportInit
  /\ input \in ThresholdInputs
  /\ output = <<>>
  /\ phase = "start"

\* require("./mongo-transport"): the module constants are computed
LoadModule ==
  /\ phase = "start"
  /\ output' = [BATCH_SIZE |-> BATCH_SIZE(input.env),
                FLUSH_MS |-> FLUSH_MS(input.env)]
  /\ phase' = "loaded"
  /\ UNCHANGED <<buffer, flushTimer, timers, inflight, issued, written,
                 dropped, stderr, conn, finalCb, ended, nextId, sinceArm,
                 lastOp, writeCb, lastChunk, input>>

\* createLogger(options) ... buildTransport(opts): the thresholds in force
ResolveThresholds ==
  /\ phase = "loaded"
  /\ output' = resolveThresholds(transportThresholds(input.options), output)
  /\ phase' = "built"
  /\ UNCHANGED <<buffer, flushTimer, timers, inflight, issued, written,
                 dropped, stderr, conn, finalCb, ended, nextId, sinceArm,
                 lastOp, writeCb, lastChunk, input>>

ThresholdNext ==
  \/ LoadModule
  \/ ResolveThresholds

ThresholdSpec == ThresholdInit /\ [][ThresholdNext]_vars

IsPositiveInteger(x) == x.t = "number" /\ x.v > 0

\* an override that is given (option, else environment variable) but is
\* zero, negative or not a number
OverrideOf(opt, envval) == IF opt # Undef THEN opt ELSE parseInt(envval)

BadOverride(opt, envval) ==
  /\ opt # Undef \/ envval # Undef
  /\ ~IsPositiveInteger(OverrideOf(opt, envval))

\* C13: the thresholds in force are positive integers, and an override that
\* is zero, negative or non-numeric yields the default value.
C13_BadOverrideFallsBack ==
  phase = "built"
  => /\ IsPositiveInteger(output.batchSize)
     /\ IsPositiveInteger(output.flushMs)
     /\ (BadOverride(input.options.batchSize, input.env.LOG_BATCH_SIZE)
          => output.batchSize = Num(DefaultBatchSize))
     /\ (BadOverride(input.options.flushMs, input.env.LOG_FLUSH_MS)
          => output.flushMs = Num(DefaultFlushMs))

NoOverride ==
  /\ input.options.batchSize = Undef
  /\ input.options.flushMs = Undef
  /\ input.env.LOG_BATCH_SIZE = Undef
  /\ input.env.LOG_FLUSH_MS = Undef

\* C17: with no batching override the logger flushes after 50 buffered
\* records or after 5000 ms.
C17_DocumentedDefaults ==
  phase = "built" /\ NoOverride
  => /\ output.batchSize = Num(50)
     /\ output.flushMs = Num(DocumentedFlushMs)

\* C14: once final has run its callback is eventually invoked, whether the
\* final insertMany resolves or rejects and whether close succeeds or fails.
C14_ShutdownCompletes ==
  /\ ended ~> finalCb # "none"
  /\ [](conn = "closed" => finalCb # "none")

C14_Witness ==
  /\ finalCb = "err"
  /\ lastOp = "closeFail"
  /\ dropped # {}
  /\ Len(issued) = 1

\* ---- construction: local mode, destinations and the sink address ---------
Bool(b) == [t |-> "boolean", v |-> b]
Word(w) == Str(<<w>>)
EmptyString == Str(<<>>)

\* getLogsMongoUri(options)
getLogsMongoUri(options, env) ==
  OrElse(options.uri, OrElse(env.LOG_MONGODB_URI, env.MONGODB_URI))

\* a local-mode test that does not look at NODE_ENV
isLocalModeNoNodeEnv(options, env) ==
  \/ options.local = Bool(TRUE)
  \/ env.LOG_TO_MONGO = Word("false")

\* isLocalMode(options)
isLocalMode(options, env) ==
  \/ options.local = Bool(TRUE)
  \/ env.LOG_TO_MONGO = Word("false")
  \/ env.NODE_ENV = Word("development")

\* createLogger, local branch: the streams records are written to
localDest(options, env) ==
  LET s1 == IF options.stdout # Bool(FALSE) THEN <<"stdout">> ELSE <<>>
      logFile == OrElse(options.logFile, env.LOG_FILE)
      streams == IF Truthy(logFile) THEN Append(s1, "file") ELSE s1
  IN IF Len(streams) > 1
     THEN streams
     ELSE IF Len(streams) = 1 THEN streams ELSE <<"stdout">>

\* createLogger, transport branch: the streams records are written to
transportDest(options) ==
  IF options.stdout # Bool(FALSE) THEN <<"stdout", "mongo">> ELSE <<"mongo">>

\* createLogger(options): mode, destination, and the transport it starts
createLogger(options, env) ==
  IF isLocalMode(options, env)
  THEN [localMode |-> TRUE, dest |-> localDest(options, env),
        transport |-> Undef]
  ELSE [localMode |-> FALSE, dest |-> transportDest(options),
        transport |-> [uri |-> getLogsMongoUri(options, env)]]

\* buildTransport without the check of uri: the client is always created
buildTransportNoCheck(opts, env) ==
  [error |-> "none", clientCreated |-> TRUE, connectCalled |-> TRUE,
   writable |-> FALSE]

\* buildTransport(opts) up to await client.connect()
buildTransportStart(opts, env) ==
  LET uri == DefaultTo(opts.uri, OrElse(env.LOG_MONGODB_URI, env.MONGODB_URI))
  IN IF ~Truthy(uri)
     THEN [error |-> "config", clientCreated |-> FALSE,
           connectCalled |-> FALSE, writable |-> FALSE]
     ELSE [error |-> "none", clientCreated |-> TRUE, connectCalled |-> TRUE,
           writable |-> FALSE]

UriVals == {Undef, EmptyString, Word("mongodb://logs")}

ModeInputs ==
  [options : [local : {Undef, Bool(TRUE), Bool(FALSE), Word("yes")},
              uri : UriVals,
              stdout : {Undef, Bool(FALSE)},
              logFile : {Undef, Word("logs/app.log")}],
   env : [LOG_TO_MONGO : {Undef, Word("false"), Word("true")},
          NODE_ENV : {Undef, Word("development"), Word("production")},
          LOG_MONGODB_URI : UriVals,
          MONGODB_URI : UriVals,
          LOG_FILE : {Undef, Word("logs/env.log")}]]

ModeInit ==
  /\ TransportInit
  /\ input \in ModeInputs
  /\ output = <<>>
  /\ phase = "start"

TransportFrozen ==
  UNCHANGED <<buffer, flushTimer, timers, inflight, issued, written, dropped,
              stderr, conn, finalCb, ended, nextId, sinceArm, lastOp, writeCb,
              lastChunk, input>>

\* the application calls createLogger(options)
CreateLogger ==
  /\ phase = "start"
  /\ output' = createLogger(input.options, input.env)
  /\ phase' = "created"
  /\ TransportFrozen

\* the transport started by createLogger runs buildTransport(opts)
BuildTransport ==
  /\ phase = "created"
  /\ ~output.localMode
  /\ LET b == buildTransportStart(output.transport, input.env)
     IN /\ output' = [localMode |-> output.localMode, dest |-> output.dest,
                      transport |-> output.transport, build |-> b]
        /\ phase' = IF b.error = "config" THEN "threw" ELSE "connecting"
  /\ TransportFrozen

\* await client.connect() resolves; the writable is built and returned
ConnectOk ==
  /\ phase = "connecting"
  /\ output' = [output EXCEPT !.build.writable = TRUE]
  /\ phase' = "ready"
  /\ TransportFrozen

\* await client.connect() rejects; buildTransport rejects with that error
ConnectFail ==
  /\ phase = "connecting"
  /\ output' = [output EXCEPT !.build.error = "connect"]
  /\ phase' = "failed"
  /\ TransportFrozen

ModeNext ==
  \/ CreateLogger
  \/ BuildTransport
  \/ ConnectOk
  \/ ConnectFail

ModeSpec == ModeInit /\ [][ModeNext]_vars

NoAddress ==
  /\ ~Truthy(input.options.uri)
  /\ ~Truthy(input.env.LOG_MONGODB_URI)
  /\ ~Truthy(input.env.MONGODB_URI)

Built == phase \in {"threw", "connecting", "ready", "failed"}

\* C15: in non-local mode with no sink address from the options or from
\* LOG_MONGODB_URI / MONGODB_URI, building the transport fails with the
\* configuration error before a client is created or connected and before
\* a writable exists to take records; with an address it does not.
C15_MissingUriFailsFast ==
  Built
  => /\ (NoAddress
          => /\ phase = "threw"
             /\ output.build.error = "config"
             /\ ~output.build.clientCreated
             /\ ~output.build.connectCalled
             /\ ~output.build.writable
             /\ nextId = 1 /\ buffer = <<>>)
     /\ (phase = "threw" => NoAddress)

C15_Witness ==
  /\ phase = "threw"
  /\ input.env.MONGODB_URI = EmptyString
  /\ input.options.uri = Undef
  /\ "mongo" \in Range(output.dest)

LocalRequested ==
  \/ input.options.local = Bool(TRUE)
  \/ input.env.LOG_TO_MONGO = Word("false")
  \/ input.env.NODE_ENV = Word("development")

LogFileConfigured ==
  Truthy(input.options.logFile) \/ Truthy(input.env.LOG_FILE)

\* C16: when options.local is true, LOG_TO_MONGO is "false" or NODE_ENV is
\* "development", no MongoDB transport is started and no address is needed:
\* the destinations are among stdout and the log file, the file exactly when
\* one is configured and stdout unless it was switched off; in every other
\* case the MongoDB transport is a destination.
C16_LocalModeNoMongo ==
  phase # "start"
  => IF LocalRequested
     THEN /\ output.transport = Undef
          /\ phase = "created"
          /\ Range(output.dest) \subseteq {"stdout", "file"}
          /\ output.dest # <<>>
          /\ ("file" \in Range(output.dest) <=> LogFileConfigured)
          /\ (input.options.stdout # Bool(FALSE)
               => "stdout" \in Range(output.dest))
     ELSE /\ output.transport # Undef
          /\ "mongo" \in Range(output.dest)
          /\ "file" \notin Range(output.dest)

C16_Witness ==
  /\ phase = "created"
  /\ input.env.NODE_ENV = Word("development")
  /\ input.options.local = Undef
  /\ NoAddress
  /\ output.dest = <<"stdout", "file">>

\* C18: a pending flush timer implies a non-empty buffer, also after a write
\* whose chunk is empty or holds only malformed lines.
C18_TimerOnlyWithRecords == timers # {} => buffer # <<>>

\* C19: before shutdown, between two events, a non-empty buffer has a
\* pending flush timer, the one flushTimer names.
C19_BufferedHasTimer ==
  ~ended /\ buffer # <<>>
  => /\ flushTimer # Null
     /\ \E t \in timers : t.id = flushTimer

C19_Witness ==
  /\ ~ended
  /\ lastOp = "write"
  /\ issued = << <<1>> >>
  /\ buffer = <<2>>
  /\ timers # {}

\* ---- the record mapper ----------------------------------------------------
JsNull == [t |-> "null"]

\* x != null / x ?? y
Nullish(x) == x = Undef \/ x = JsNull

LevelNumbers == {10, 20, 30, 40, 50, 60}

\* const LEVEL_MAP
LEVEL_MAP ==
  [n \in LevelNumbers |->
     CASE n = 10 -> "trace" [] n = 20 -> "debug" [] n = 30 -> "info"
       [] n = 40 -> "warn" [] n = 50 -> "error" [] OTHER -> "fatal"]

\* LEVEL_MAP[level] || "info"
levelName(level) ==
  IF level.t = "number" /\ level.v \in LevelNumbers
  THEN Word(LEVEL_MAP[level.v])
  ELSE Word("info")

DecimalDigits == <<"0", "1", "2", "3", "4", "5", "6", "7", "8", "9">>

RECURSIVE decimalText(_)
decimalText(n) ==
  IF n < 10
  THEN <<DecimalDigits[n + 1]>>
  ELSE decimalText(n \div 10) \o <<DecimalDigits[(n % 10) + 1]>>

\* String(x) for the strings and the non-negative integers of the model
String(x) == IF x.t = "number" THEN Str(decimalText(x.v)) ELSE x

\* new Date(time), or new Date() when the record has no time
dateOf(time) ==
  IF Nullish(time) THEN [t |-> "date", of |-> "now"]
  ELSE [t |-> "date", of |-> time]

\* the properties of an ingress record the model draws
Keys == {"level", "msg", "message", "time", "reqId", "tag"}

\* the properties the destructuring of pinoToDoc takes out by name
Named ==
  {"level", "msg", "time", "reqId", "userId", "endpoint", "request",
   "response"}

\* obj.k, undefined when the record has no property k
Prop(obj, k) == IF k \in DOMAIN obj THEN obj[k] ELSE Undef

\* { ...rest } of the destructuring
restOf(obj) ==
  LET ks == {k \in DOMAIN obj : k \notin Named /\ obj[k] # Undef}
  IN [k \in ks |-> obj[k]]

\* typeof rest.msg === "string" ? rest.msg : ""
restMsg(rest) ==
  IF Prop(rest, "msg").t = "string" THEN Prop(rest, "msg") ELSE EmptyString

\* function pinoToDoc(line, service), line being an object or null
pinoToDoc(obj, service) ==
  IF obj = JsNull
  THEN [threw |-> TRUE]
  ELSE LET rest == restOf(obj)
           msg == Prop(obj, "msg")
           reqId == Prop(obj, "reqId")
       IN [threw |-> FALSE,
           doc |-> [level |-> levelName(Prop(obj, "level")),
                    message |-> IF Nullish(msg) THEN restMsg(rest) ELSE msg,
                    service |-> service,
                    source |-> Word("logger-client-node"),
                    storage |-> Word("mongodb"),
                    storageTags |-> <<Word("mongodb")>>,
                    timestamp |-> dateOf(Prop(obj, "time")),
                    reqId |-> IF Nullish(reqId) THEN Undef ELSE String(reqId),
                    meta |-> IF DOMAIN rest # {} THEN rest ELSE Undef]]

PropVals(k) ==
  CASE k = "level" -> {Undef, Num(30), Num(50), Num(35), Word("error")}
    [] k = "msg" -> {Undef, JsNull, Word("hello"), EmptyString}
    [] k = "message" -> {Undef, Word("text"), EmptyString}
    [] k = "time" -> {Undef, Num(1000)}
    [] k = "reqId" -> {Undef, Num(17), Word("r1")}
    [] OTHER -> {Undef, Word("x")}

\* the ingress records: a property drawn as undefined is absent
Objects == {o \in [Keys -> UNION {PropVals(k) : k \in Keys}] :
              \A k \in Keys : o[k] \in PropVals(k)}

MapperInputs == [obj : Objects \cup {JsNull}, service : {Word("app")}]

MapperInit ==
  /\ TransportInit
  /\ input \in MapperInputs
  /\ output = <<>>
  /\ phase = "start"

\* write() maps one parsed line
MapRecord ==
  /\ phase = "start"
  /\ output' = pinoToDoc(input.obj, input.service)
  /\ phase' = "mapped"
  /\ TransportFrozen

MapperNext == MapRecord

MapperSpec == MapperInit /\ [][MapperNext]_vars

TextUnderMessage ==
  /\ input.obj # JsNull
  /\ input.obj["msg"] = Undef
  /\ input.obj["message"] # Undef

\* C20: a record that carries its text under `message` and has no `msg` is
\* stored with message equal to that text, and the text is not put in meta;
\* message is the empty string only when the record carries neither.
C20_MessageFieldMapped ==
  phase = "mapped" /\ TextUnderMessage
  => /\ ~output.threw
     /\ output.doc.message = input.obj["message"]
     /\ "message" \notin DOMAIN output.doc.meta
====
